---- MODULE Spec2Model ----
(***************************************************************************)
(* TrailMap: camera registry, detection ingestion (library call and HTTP   *)
(* endpoint), the Map page's per-camera aggregation and the Maintenance    *)
(* page's camera re-assignment, modelled from                              *)
(* src/trailmap/firestore_utils.py, src/ingest_service.py,                 *)
(* src/pages/01_Map.py and src/pages/03_Maintenance.py.                    *)
(*                                                                         *)
(* Firestore is modelled as two collections, each a function from document *)
(* id to document (a record).  Every Firestore round trip (get, set,       *)
(* update, delete, stream, commit) is one atomic step; the Python code     *)
(* between two round trips belongs to the step of the round trip it        *)
(* follows or precedes.  Callers are the processes of Procs.               *)
(***************************************************************************)
EXTENDS Integers, Sequences, FiniteSets, TLC

VARIABLES
    cameras,        \* collection "cameras":    camera_id -> document
    detections,     \* collection "detections": doc_id    -> document
    clock,          \* index of the current wall-clock second
    pc,             \* per caller: where it is in its current call
    req,            \* per caller: the arguments of its current / last call
    camera_cache,   \* per caller: ingest_detections' local camera_cache
    batch,          \* per caller: ingest_detections' WriteBatch buffer
    response,       \* per caller: how its last call ended
    calls,          \* number of calls started so far
    det_df,         \* Map page: the DataFrame get_detections_df() returned
    flt,            \* Map page: selected_cameras, date_range, hour_range
    agg_df,         \* Map page: per-camera rollup
    heading_df,     \* Map page: per-camera predominant heading
    page            \* Map page: "loaded" until the script has computed the rollup

vars == << cameras, detections, clock, pc, req, camera_cache, batch,
           response, calls, det_df, flt, agg_df, heading_df, page >>

storeVars == << cameras, detections, clock, pc, req, camera_cache, batch,
                response, calls >>

mapVars == << det_df, flt, agg_df, heading_df, page >>

----------------------------------------------------------------------------
(* Bounds of the model *)

MaxCalls == 2       \* calls started in one behaviour
MaxClock == 1       \* wall-clock seconds that pass in one behaviour
MaxRows  == 3       \* rows of det_df in the aggregation specifications

Procs == {"p1", "p2"}

----------------------------------------------------------------------------
(* Generic helpers *)

Range(f) == {f[x] : x \in DOMAIN f}

SeqsUpTo(S, n) == UNION {[1..k -> S] : k \in 0..n}

\* dict "old | new": the keys of both, new wins.
Merge(old, new) ==
    [k \in DOMAIN old \cup DOMAIN new |->
        IF k \in DOMAIN new THEN new[k] ELSE old[k]]

EmptyDoc == [k \in {} |-> 0]

Pad2(n) == IF n < 10 THEN "0" \o ToString(n) ELSE ToString(n)

----------------------------------------------------------------------------
(* Time *)

Ts(y, mo, d, h, mi, s, us) ==
    [y |-> y, mo |-> mo, d |-> d, h |-> h, mi |-> mi, s |-> s, us |-> us]

\* datetime.utcnow() when the wall clock shows its n-th second.
ClockTime(n) == Ts(2025, 8, 5, 13, 10, 45 + n, 0)

Utcnow == ClockTime(clock)

\* dt.strftime("%Y%m%dT%H%M%S"): second precision, microseconds dropped.
Strftime(dt) ==
    ToString(dt.y) \o Pad2(dt.mo) \o Pad2(dt.d) \o "T"
        \o Pad2(dt.h) \o Pad2(dt.mi) \o Pad2(dt.s)

\* pd.to_datetime on the date_time strings the model feeds in; a string
\* outside the table does not parse.
ParseTable ==
    [s \in {"2024-09-26 06:42:56", "2024-09-26T06:42:56",
            "2024-09-26 06:42:56.5", "2024-09-27 18:05:00"} |->
        CASE s = "2024-09-26 06:42:56"   -> Ts(2024, 9, 26, 6, 42, 56, 0)
          [] s = "2024-09-26T06:42:56"   -> Ts(2024, 9, 26, 6, 42, 56, 0)
          [] s = "2024-09-26 06:42:56.5" -> Ts(2024, 9, 26, 6, 42, 56, 500000)
          [] s = "2024-09-27 18:05:00"   -> Ts(2024, 9, 27, 18, 5, 0, 0)]

Parseable(s) == s \in DOMAIN ParseTable

DateOf(dt) == << dt.y, dt.mo, dt.d >>

\* lexicographic order on equal-length tuples of integers
RECURSIVE TupleLeq(_, _)
TupleLeq(a, b) ==
    IF a = << >> THEN TRUE
    ELSE IF Head(a) < Head(b) THEN TRUE
    ELSE IF Head(a) > Head(b) THEN FALSE
    ELSE TupleLeq(Tail(a), Tail(b))

TsTuple(dt) == << dt.y, dt.mo, dt.d, dt.h, dt.mi, dt.s, dt.us >>

TsLeq(a, b) == TupleLeq(TsTuple(a), TsTuple(b))

----------------------------------------------------------------------------
(* Outcomes of a call *)

NoResponse == [kind |-> "none"]

Returned == [kind |-> "returned"]

\* raise ValueError(f"<text> '<arg>' ...")
ValueError(text, arg) == [kind |-> "ValueError", text |-> text, arg |-> arg]

\* google.api_core.exceptions.NotFound, raised by DocumentReference.update
FirestoreNotFound(id) == [kind |-> "NotFound", text |-> "No document to update", arg |-> id]

\* TypeError: update_camera() got multiple values for argument 'camera_id'
TypeError(arg) == [kind |-> "TypeError", text |-> "multiple values for argument", arg |-> arg]

----------------------------------------------------------------------------
(* Camera CRUD inputs *)

CamIds == {"1", "2"}

CamInputs ==
    { [nickname |-> "north", lat |-> 41, lon |-> -79],
      [nickname |-> "south", lat |-> 42, lon |-> -80] }

\* keyword arguments handed to update_camera(camera_id, **fields)
UpdateInputs ==
    { [nickname |-> "creek"],
      [lat |-> 43, lon |-> -81],
      [created_at |-> Ts(2000, 1, 1, 0, 0, 0, 0)],
      [owner |-> "x"],
      [camera_id |-> "2"] }

MutableFields == {"nickname", "lat", "lon"}

\* a registry left by an earlier session: camera "1", created before the clock starts
SeedTime == Ts(2024, 9, 1, 8, 0, 0, 0)

SeedCameras ==
    [id \in {"1"} |->
        [nickname |-> "north", lat |-> 41, lon |-> -79,
         created_at |-> SeedTime, updated_at |-> SeedTime]]

----------------------------------------------------------------------------
(* Firestore document operations *)

\* snapshot.exists
Exists(col, id) == id \in DOMAIN col

\* DocumentReference.set(data): create or replace the whole document
DocSet(col, id, data) ==
    [k \in DOMAIN col \cup {id} |-> IF k = id THEN data ELSE col[k]]

\* DocumentReference.update(fields): merge field by field into an existing document
DocUpdate(col, id, fields) ==
    [k \in DOMAIN col |-> IF k = id THEN Merge(col[k], fields) ELSE col[k]]

\* DocumentReference.delete(): no error when the document is absent
DocDelete(col, id) == [k \in DOMAIN col \ {id} |-> col[k]]

\* list_cameras(): doc.to_dict() | {"camera_id": doc.id} for every document
list_cameras == { Merge(cameras[id], [camera_id |-> id]) : id \in DOMAIN cameras }

----------------------------------------------------------------------------
(* Call bookkeeping *)

Finish(p, r) ==
    /\ pc' = [pc EXCEPT ![p] = "idle"]
    /\ response' = [response EXCEPT ![p] = r]
    /\ camera_cache' = [camera_cache EXCEPT ![p] = {}]
    /\ batch' = [batch EXCEPT ![p] = << >>]

Start(p, label, r) ==
    /\ calls < MaxCalls
    /\ calls' = calls + 1
    /\ pc' = [pc EXCEPT ![p] = label]
    /\ req' = [req EXCEPT ![p] = r]
    /\ response' = [response EXCEPT ![p] = NoResponse]
    /\ UNCHANGED << cameras, detections, clock, camera_cache, batch, mapVars >>

----------------------------------------------------------------------------
(* create_camera(camera_id, nickname, lat, lon) *)

CallCreate(p) ==
    \E id \in CamIds, c \in CamInputs :
        /\ pc[p] = "idle"
        /\ Start(p, "create_get", [op |-> "create", camera_id |-> id, fields |-> c])

\* the document create_camera writes
NewCameraDoc(c, now) ==
    [nickname |-> c.nickname, lat |-> c.lat, lon |-> c.lon,
     created_at |-> now, updated_at |-> now]

\* a check that never finds the document
CameraExistsNever(col, id) == FALSE

\* ref.get().exists in create_camera
CameraExists(col, id) == Exists(col, id)

\* ref.get().exists, and the raise
CreateGet(p) ==
    /\ pc[p] = "create_get"
    /\ IF CameraExists(cameras, req[p].camera_id)
       THEN /\ Finish(p, ValueError("Camera already exists", req[p].camera_id))
       ELSE /\ pc' = [pc EXCEPT ![p] = "create_set"]
            /\ UNCHANGED << response, camera_cache, batch >>
    /\ UNCHANGED << cameras, detections, clock, req, calls, mapVars >>

\* ref.set({...})
CreateSet(p) ==
    /\ pc[p] = "create_set"
    /\ cameras' = DocSet(cameras, req[p].camera_id, NewCameraDoc(req[p].fields, Utcnow))
    /\ Finish(p, Returned)
    /\ UNCHANGED << detections, clock, req, calls, mapVars >>

----------------------------------------------------------------------------
(* update_camera(camera_id, **fields) *)

\* Python binds camera_id positionally; a camera_id keyword is a TypeError
\* raised before the body runs.
CallUpdate(p) ==
    \E id \in CamIds, f \in UpdateInputs :
        /\ pc[p] = "idle"
        /\ Start(p, "update_get", [op |-> "update", camera_id |-> id, fields |-> f])

\* the dict handed to ref.update: the caller's fields plus updated_at
UpdatePayload(fields, now) == Merge(fields, [updated_at |-> now])

UpdateGet(p) ==
    /\ pc[p] = "update_get"
    /\ IF "camera_id" \in DOMAIN req[p].fields
       THEN Finish(p, TypeError("camera_id"))
       ELSE IF ~Exists(cameras, req[p].camera_id)
       THEN Finish(p, ValueError("Camera not found", req[p].camera_id))
       ELSE /\ pc' = [pc EXCEPT ![p] = "update_update"]
            /\ UNCHANGED << response, camera_cache, batch >>
    /\ UNCHANGED << cameras, detections, clock, req, calls, mapVars >>

UpdateUpdate(p) ==
    /\ pc[p] = "update_update"
    /\ IF Exists(cameras, req[p].camera_id)
       THEN /\ cameras' = DocUpdate(cameras, req[p].camera_id,
                                    UpdatePayload(req[p].fields, Utcnow))
            /\ Finish(p, Returned)
       ELSE /\ cameras' = cameras
            /\ Finish(p, FirestoreNotFound(req[p].camera_id))
    /\ UNCHANGED << detections, clock, req, calls, mapVars >>

----------------------------------------------------------------------------
(* delete_camera(camera_id) *)

CallDelete(p) ==
    \E id \in CamIds :
        /\ pc[p] = "idle"
        /\ Start(p, "delete_get", [op |-> "delete", camera_id |-> id])

DeleteGet(p) ==
    /\ pc[p] = "delete_get"
    /\ IF ~Exists(cameras, req[p].camera_id)
       THEN Finish(p, ValueError("Camera not found", req[p].camera_id))
       ELSE /\ pc' = [pc EXCEPT ![p] = "delete_delete"]
            /\ UNCHANGED << response, camera_cache, batch >>
    /\ UNCHANGED << cameras, detections, clock, req, calls, mapVars >>

DeleteDelete(p) ==
    /\ pc[p] = "delete_delete"
    /\ cameras' = DocDelete(cameras, req[p].camera_id)
    /\ Finish(p, Returned)
    /\ UNCHANGED << detections, clock, req, calls, mapVars >>

----------------------------------------------------------------------------
(* ingest_detections(rows): inputs *)

Row(cam, dt, file, buck, deer, doe) ==
    [file_name |-> file, date_time |-> dt, buck_count |-> buck,
     deer_count |-> deer, doe_count |-> doe, camera_id |-> cam]

WithDirection(r, d) == Merge(r, [direction |-> d])

RowA == WithDirection(Row("1", "2024-09-26 06:42:56", "a.jpg", 1, 1, 0), "N")
RowB == Row("1", "2024-09-26T06:42:56", "a.jpg", 0, 1, 1)   \* RowA's identity, other payload
RowC == Row("2", "2024-09-27 18:05:00", "b.jpg", 0, 1, 1)
RowBadDate == Row("1", "garbage", "c.jpg", 0, 1, 1)
RowNow == Row("1", "NOW", "a.jpg", 1, 1, 0)
RowNegative == Row("1", "2024-09-27 18:05:00", "d.jpg", -1, 1, 0)

\* the batches a caller hands to ingest_detections
Batches ==
    { << RowA >>, << RowB >>, << RowA, RowB >>, << RowA, RowC >>,
      << RowC, RowA >>, << RowA, RowBadDate >>, << RowNow >>,
      << RowNegative >> }

----------------------------------------------------------------------------
(* ingest_detections(rows): the loop *)

NoError == [kind |-> "none"]

\* doc_id = f"{cam_id}_{ts_str}_{r['file_name']}"
DocId(cam_id, dt, file_name) == cam_id \o "_" \o Strftime(dt) \o "_" \o file_name

\* payload = {**r, "date_time": dt, "ingested_at": datetime.utcnow()}
Payload(r, dt, now) == Merge(r, [date_time |-> dt, ingested_at |-> now])

\* datetime.utcnow() if r["date_time"] == "NOW" else pd.to_datetime(...)
RowTime(r, now) == IF r.date_time = "NOW" THEN now ELSE ParseTable[r.date_time]

\* the for loop: the first bad row raises; otherwise every row is queued on
\* the WriteBatch.  Result: the exception raised (or NoError) and the queue.
RECURSIVE Loop(_, _, _, _)
Loop(rows, cache, now, queued) ==
    IF rows = << >> THEN [err |-> NoError, writes |-> queued]
    ELSE LET r == Head(rows) IN
         IF r.camera_id \notin cache
         THEN [err |-> ValueError("Unknown camera_id", r.camera_id), writes |-> queued]
         ELSE IF r.date_time # "NOW" /\ ~Parseable(r.date_time)
         THEN [err |-> ValueError("Bad date_time", r.date_time), writes |-> queued]
         ELSE LET dt == RowTime(r, now) IN
              Loop(Tail(rows), cache, now,
                   Append(queued, [id   |-> DocId(r.camera_id, dt, r.file_name),
                                   data |-> Payload(r, dt, now)]))

\* a loop that drops a bad row and carries on, instead of raising
RECURSIVE LoopSkippingBadRows(_, _, _, _)
LoopSkippingBadRows(rows, cache, now, queued) ==
    IF rows = << >> THEN [err |-> NoError, writes |-> queued]
    ELSE LET r == Head(rows) IN
         IF r.camera_id \notin cache \/ (r.date_time # "NOW" /\ ~Parseable(r.date_time))
         THEN LoopSkippingBadRows(Tail(rows), cache, now, queued)
         ELSE LET dt == RowTime(r, now) IN
              LoopSkippingBadRows(Tail(rows), cache, now,
                   Append(queued, [id   |-> DocId(r.camera_id, dt, r.file_name),
                                   data |-> Payload(r, dt, now)]))

BuildBatchSkipping(rows, cache, now) == LoopSkippingBadRows(rows, cache, now, << >>)

BuildBatch(rows, cache, now) == Loop(rows, cache, now, << >>)

\* the same for loop over rows that come from a DataFrame: date_time is a
\* Timestamp already, so it is not "NOW" and pd.to_datetime hands it back
RECURSIVE LoopStored(_, _, _, _)
LoopStored(rows, cache, now, queued) ==
    IF rows = << >> THEN [err |-> NoError, writes |-> queued]
    ELSE LET r == Head(rows) IN
         IF r.camera_id \notin cache
         THEN [err |-> ValueError("Unknown camera_id", r.camera_id), writes |-> queued]
         ELSE LET dt == r.date_time IN
              LoopStored(Tail(rows), cache, now,
                   Append(queued, [id   |-> DocId(r.camera_id, dt, r.file_name),
                                   data |-> Payload(r, dt, now)]))

BuildBatchStored(rows, cache, now) == LoopStored(rows, cache, now, << >>)

\* batch.set(ref, payload, merge=True)
BatchSetMerging(col, w) ==
    IF Exists(col, w.id) THEN DocUpdate(col, w.id, w.data) ELSE DocSet(col, w.id, w.data)

\* batch.set(ref, payload, merge=False), as applied at commit
BatchSet(col, w) == DocSet(col, w.id, w.data)

\* batch.commit(): the queued writes, in order, all at once
RECURSIVE Commit(_, _)
Commit(col, writes) ==
    IF writes = << >> THEN col
    ELSE Commit(BatchSet(col, Head(writes)), Tail(writes))

----------------------------------------------------------------------------
(* POST /api/ingest: inputs *)

API_TOKEN == "replace-me-or-use-env"

ExpectedHeader == "Bearer " \o API_TOKEN

\* the Authorization header: << >> when absent, << value >> when sent
Headers == { << >>, << ExpectedHeader >>, << "Bearer wrong" >>, << API_TOKEN >> }

Csv(cam, dt, file, buck, deer, doe) ==
    [file_name |-> file, date_time |-> dt, buck_count |-> buck,
     deer_count |-> deer, doe_count |-> doe, camera_id |-> cam]

CsvA == Merge(Csv("1", "2024-09-26 06:42:56", "a.jpg", "1", "1", "0"), [direction |-> "N"])
CsvC == Csv("2", "2024-09-27 18:05:00", "b.jpg", "0", "1", "1")
CsvNegative == Csv("1", "2024-09-27 18:05:00", "d.jpg", "-1", "1", "0")
CsvNoBuck ==
    [file_name |-> "a.jpg", date_time |-> "2024-09-26 06:42:56",
     deer_count |-> "1", doe_count |-> "0", camera_id |-> "1"]

\* request bodies: utf8 says whether body.decode() succeeds; rows is what
\* csv.DictReader yields
Bodies ==
    { [utf8 |-> TRUE,  rows |-> << CsvA >>],
      [utf8 |-> TRUE,  rows |-> << CsvA, CsvC >>],
      [utf8 |-> TRUE,  rows |-> << CsvNegative >>],
      [utf8 |-> TRUE,  rows |-> << CsvNoBuck >>],
      [utf8 |-> FALSE, rows |-> << >>] }

HTTP_204_NO_CONTENT == 204
HTTP_400_BAD_REQUEST == 400
HTTP_401_UNAUTHORIZED == 401

Http(status, text, arg) == [kind |-> "http", status |-> status, text |-> text, arg |-> arg]

----------------------------------------------------------------------------
(* POST /api/ingest: pydantic and the handler *)

\* pydantic's str -> int coercion on the count strings the model feeds in
IntTable == [s \in {"0", "1", "-1"} |-> CASE s = "0" -> 0 [] s = "1" -> 1 [] s = "-1" -> -1]

RequiredFields ==
    {"file_name", "date_time", "buck_count", "deer_count", "doe_count", "camera_id"}

CountFields == {"buck_count", "deer_count", "doe_count"}

\* DetectionRow(**r) raises unless every field is there and every count is an int >= 0
RowValidates(r) ==
    /\ RequiredFields \subseteq DOMAIN r
    /\ \A f \in CountFields : r[f] \in DOMAIN IntTable /\ IntTable[r[f]] >= 0

\* DetectionRow(**r).model_dump(): the declared fields only, counts as ints
ModelDump(r) ==
    [f \in RequiredFields |-> IF f \in CountFields THEN IntTable[r[f]] ELSE r[f]]

\* any header is accepted as long as one is sent
CheckAuthAnyHeader(hdr) == hdr # << >>

\* _check_auth passes
CheckAuth(hdr) == hdr = << ExpectedHeader >>

\* what the caller of ingest_detections makes of its outcome
Reply(p, outcome) ==
    IF req[p].op = "post"
    THEN IF outcome.kind = "ValueError"
         THEN Http(HTTP_400_BAD_REQUEST, outcome.text, outcome.arg)
         ELSE Http(HTTP_204_NO_CONTENT, "", "")
    ELSE outcome

----------------------------------------------------------------------------
(* ingest_detections(rows): the steps *)

\* a page or a script calls ingest_detections(rows) with the dicts it holds
CallIngest(p) ==
    \E b \in Batches :
        /\ pc[p] = "idle"
        /\ Start(p, "ingest_list", [op |-> "ingest", rows |-> b])

\* camera_cache = {c["camera_id"] for c in list_cameras()}
IngestList(p) ==
    /\ pc[p] = "ingest_list"
    /\ camera_cache' = [camera_cache EXCEPT ![p] = {c.camera_id : c \in list_cameras}]
    /\ pc' = [pc EXCEPT ![p] = "ingest_loop"]
    /\ UNCHANGED << cameras, detections, clock, req, batch, response, calls, mapVars >>

\* the registry as it is when the row is looked up, not as it was snapshotted
KnownCamerasLive(p) == DOMAIN cameras

\* "cam_id not in camera_cache": the set every row of the call is checked against
KnownCameras(p) == camera_cache[p]

\* the for loop over rows: raises, or leaves the queued writes on the batch
IngestLoop(p) ==
    /\ pc[p] = "ingest_loop"
    /\ LET res == IF req[p].op = "reassign"
                  THEN BuildBatchStored(req[p].rows, KnownCameras(p), Utcnow)
                  ELSE BuildBatch(req[p].rows, KnownCameras(p), Utcnow) IN
         IF res.err # NoError
         THEN Finish(p, Reply(p, res.err))
         ELSE /\ batch' = [batch EXCEPT ![p] = res.writes]
              /\ pc' = [pc EXCEPT ![p] = "ingest_commit"]
              /\ UNCHANGED << response, camera_cache >>
    /\ UNCHANGED << cameras, detections, clock, req, calls, mapVars >>

\* batch.commit()
IngestCommit(p) ==
    /\ pc[p] = "ingest_commit"
    /\ detections' = Commit(detections, batch[p])
    /\ Finish(p, Reply(p, Returned))
    /\ UNCHANGED << cameras, clock, req, calls, mapVars >>

----------------------------------------------------------------------------
(* POST /api/ingest: the steps *)

CallPost(p) ==
    \E h \in Headers, b \in Bodies :
        /\ pc[p] = "idle"
        /\ Start(p, "post_auth", [op |-> "post", authorization |-> h, body |-> b])

\* _check_auth(authorization)
PostAuth(p) ==
    /\ pc[p] = "post_auth"
    /\ IF CheckAuth(req[p].authorization)
       THEN /\ pc' = [pc EXCEPT ![p] = "post_body"]
            /\ UNCHANGED << response, camera_cache, batch >>
       ELSE Finish(p, Http(HTTP_401_UNAUTHORIZED, "Invalid token", ""))
    /\ UNCHANGED << cameras, detections, clock, req, calls, mapVars >>

\* body = await request.body(); decode, csv.DictReader, DetectionRow(**r);
\* then ingest_detections([r.model_dump() for r in rows]) is entered
PostBody(p) ==
    /\ pc[p] = "post_body"
    /\ LET body == req[p].body IN
         IF body.utf8 /\ \A i \in DOMAIN body.rows : RowValidates(body.rows[i])
         THEN /\ req' = [req EXCEPT ![p] =
                    Merge(req[p], [rows |-> [i \in DOMAIN body.rows |-> ModelDump(body.rows[i])]])]
              /\ pc' = [pc EXCEPT ![p] = "ingest_list"]
              /\ UNCHANGED << response, camera_cache, batch >>
         ELSE /\ Finish(p, Http(HTTP_400_BAD_REQUEST, "Malformed CSV", ""))
              /\ req' = req
    /\ UNCHANGED << cameras, detections, clock, calls, mapVars >>

----------------------------------------------------------------------------
(* The wall clock *)

Tick ==
    /\ clock < MaxClock
    /\ clock' = clock + 1
    /\ UNCHANGED << cameras, detections, pc, req, camera_cache, batch, response, calls, mapVars >>

----------------------------------------------------------------------------
(* Map page: inputs *)

T_26_06 == Ts(2024, 9, 26, 6, 42, 56, 0)
T_26_18 == Ts(2024, 9, 26, 18, 5, 0, 0)
T_27_09 == Ts(2024, 9, 27, 9, 30, 0, 0)

\* a stored detection as get_detections_df() returns it
Stored(cam, dt, buck, doe) ==
    [file_name |-> "a.jpg", date_time |-> dt, buck_count |-> buck, deer_count |-> 1,
     doe_count |-> doe, camera_id |-> cam, ingested_at |-> ClockTime(0)]

AggRows ==
    { WithDirection(Stored("1", T_26_06, 1, 0), "N"),
      WithDirection(Stored("1", T_26_06, 0, 2), "e"),
      WithDirection(Stored("1", T_27_09, 2, 0), "sw"),
      WithDirection(Stored("1", T_26_18, 0, 1), "e"),
      WithDirection(Stored("1", T_26_06, 1, 1), "up"),
      Stored("1", T_27_09, 0, 0),
      WithDirection(Stored("2", T_26_06, 1, 0), "e"),
      WithDirection(Stored("2", T_26_18, 0, 1), "N") }

Filters ==
    [cameras    : { {}, {"1"}, {"1", "2"} },
     date_range : { << <<2024, 9, 26>>, <<2024, 9, 26>> >>,
                    << <<2024, 9, 26>>, <<2024, 9, 27>> >> },
     hour_range : { << 0, 23 >>, << 6, 9 >> }]

----------------------------------------------------------------------------
(* Map page: direction_deg *)

COMPASS_DEG ==
    [d \in {"N", "NE", "E", "SE", "S", "SW", "W", "NW"} |->
        CASE d = "N" -> 0    [] d = "NE" -> 45  [] d = "E" -> 90  [] d = "SE" -> 135
          [] d = "S" -> 180  [] d = "SW" -> 225 [] d = "W" -> 270 [] d = "NW" -> 315]

\* str.upper() on the direction strings the model feeds in
Upper(d) ==
    CASE d = "e" -> "E" [] d = "sw" -> "SW" [] d = "up" -> "UP" [] OTHER -> d

\* direction_deg is not NaN: the row has a direction and the table knows it
HasDeg(r) == "direction" \in DOMAIN r /\ Upper(r.direction) \in DOMAIN COMPASS_DEG

direction_deg(r) == COMPASS_DEG[Upper(r.direction)]

----------------------------------------------------------------------------
(* Map page: pandas helpers *)

\* ("col", "count"): the rows whose col is not null
Count(df, col) == Cardinality({i \in DOMAIN df : col \in DOMAIN df[i]})

\* ("col", "sum")
RECURSIVE Sum(_, _)
Sum(df, col) == IF df = << >> THEN 0 ELSE Head(df)[col] + Sum(Tail(df), col)

\* ("date_time", "max")
MaxTime(df) ==
    CHOOSE t \in {df[i].date_time : i \in DOMAIN df} :
        \A i \in DOMAIN df : TsLeq(df[i].date_time, t)

\* (a / b).round(2), in hundredths; numpy rounds a half to the even neighbour
Round2(a, b) ==
    LET q == (100 * a) \div b
        r == (100 * a) % b
    IN  IF 2 * r > b \/ (2 * r = b /\ q % 2 = 1) THEN q + 1 ELSE q

Occurrences(s, v) == Cardinality({i \in DOMAIN s : s[i] = v})

\* the values of s that occur most often
Modal(s) ==
    {v \in Range(s) : \A w \in Range(s) : Occurrences(s, w) <= Occurrences(s, v)}

RECURSIVE Sorted(_)
Sorted(S) ==
    IF S = {} THEN << >>
    ELSE LET m == CHOOSE x \in S : \A y \in S : x <= y IN << m >> \o Sorted(S \ {m})

\* the modal value that comes first in the series
FirstSeenMode(s) == s[CHOOSE i \in DOMAIN s : s[i] \in Modal(s) /\ \A j \in 1..(i-1) : s[j] \notin Modal(s)]

\* Series.mode(): the modal values, sorted ascending
SeriesMode(s) == Sorted(Modal(s))

\* lambda s: s.mode().iat[0]
ModeIat0FirstSeen(s) == FirstSeenMode(s)

ModeIat0(s) == SeriesMode(s)[1]

----------------------------------------------------------------------------
(* Map page: the rollup *)

DateLeq(a, b) == TupleLeq(a, b)

\* hour.between(lo, hi) with the upper end left out
HourBetweenExclusive(h, range) == range[1] <= h /\ h < range[2]

\* Series.between(lo, hi): both ends included
HourBetween(h, range) == range[1] <= h /\ h <= range[2]

DateBetween(d, range) == DateLeq(range[1], d) /\ DateLeq(d, range[2])

\* mask: camera selected, date in range, hour in range
Mask(r, f) ==
    /\ r.camera_id \in f.cameras
    /\ DateBetween(DateOf(r.date_time), f.date_range)
    /\ HourBetween(r.date_time.h, f.hour_range)

GroupKeys(df) == {df[i].camera_id : i \in DOMAIN df}

Group(df, cam) == SelectSeq(df, LAMBDA r : r.camera_id = cam)

\* det_df[mask].groupby("camera_id").agg(...), then buck_pct and doe_pct
Rollup(df, f) ==
    IF df = << >> THEN EmptyDoc
    ELSE LET kept == SelectSeq(df, LAMBDA r : Mask(r, f)) IN
         [cam \in GroupKeys(kept) |->
            LET g == Group(kept, cam)
                total == Count(g, "file_name")
            IN  [total     |-> total,
                 buck_cnt  |-> Sum(g, "buck_count"),
                 doe_cnt   |-> Sum(g, "doe_count"),
                 last_seen |-> MaxTime(g),
                 buck_pct  |-> Round2(Sum(g, "buck_count"), total),
                 doe_pct   |-> Round2(Sum(g, "doe_count"), total)]]

Degrees(df) == [i \in DOMAIN df |-> direction_deg(df[i])]

\* det_df[mask & direction_deg.notna()].groupby("camera_id")["direction_deg"].agg(mode)
Headings(df, f) ==
    IF df = << >> THEN EmptyDoc
    ELSE LET kept == SelectSeq(df, LAMBDA r : Mask(r, f) /\ HasDeg(r)) IN
         [cam \in GroupKeys(kept) |-> ModeIat0(Degrees(Group(kept, cam)))]

\* one run of the page script with the sidebar set to filter f
MapRun ==
    \E f \in Filters :
        /\ flt' = f
        /\ agg_df' = Rollup(det_df, f)
        /\ heading_df' = Headings(det_df, f)
        /\ page' = "rendered"
        /\ UNCHANGED << det_df, storeVars >>

----------------------------------------------------------------------------
(* Specifications *)

NoFilter == [cameras |-> {}, date_range |-> << <<0, 0, 0>>, <<0, 0, 0>> >>, hour_range |-> << 0, 23 >>]

StoreInit ==
    /\ cameras \in {EmptyDoc, SeedCameras}
    /\ detections = EmptyDoc
    /\ clock = 0
    /\ pc = [p \in Procs |-> "idle"]
    /\ req = [p \in Procs |-> [op |-> "none"]]
    /\ camera_cache = [p \in Procs |-> {}]
    /\ batch = [p \in Procs |-> << >>]
    /\ response = [p \in Procs |-> NoResponse]
    /\ calls = 0

MapInit ==
    /\ flt = NoFilter
    /\ agg_df = EmptyDoc
    /\ heading_df = EmptyDoc
    /\ page = "loaded"

Init ==
    /\ StoreInit
    /\ MapInit
    /\ det_df = << >>

RegistryStep(p) ==
    \/ CallCreate(p) \/ CreateGet(p) \/ CreateSet(p)
    \/ CallUpdate(p) \/ UpdateGet(p) \/ UpdateUpdate(p)
    \/ CallDelete(p) \/ DeleteGet(p) \/ DeleteDelete(p)

IngestStep(p) ==
    \/ CallIngest(p) \/ IngestList(p) \/ IngestLoop(p) \/ IngestCommit(p)

PostStep(p) ==
    \/ CallPost(p) \/ PostAuth(p) \/ PostBody(p)

\* every caller, every operation
Next ==
    \/ \E p \in Procs : RegistryStep(p) \/ IngestStep(p) \/ PostStep(p)
    \/ Tick

Spec == Init /\ [][Next]_vars

\* the camera registry under concurrent create / update / delete
RegistryNext ==
    \/ \E p \in Procs : RegistryStep(p)
    \/ Tick

RegistrySpec == Init /\ [][RegistryNext]_vars

\* ingest_detections called by the pages, beside camera creation and deletion
IngestNext ==
    \/ \E p \in Procs :
          \/ IngestStep(p)
          \/ CallCreate(p) \/ CreateGet(p) \/ CreateSet(p)
          \/ CallDelete(p) \/ DeleteGet(p) \/ DeleteDelete(p)
    \/ Tick

IngestSpec == Init /\ [][IngestNext]_vars

\* the HTTP endpoint
EndpointNext ==
    \/ \E p \in Procs : PostStep(p) \/ IngestList(p) \/ IngestLoop(p) \/ IngestCommit(p)
    \/ Tick

EndpointSpec == Init /\ [][EndpointNext]_vars

\* the Map page over any detections the store may hold
AggInit ==
    /\ StoreInit
    /\ cameras = SeedCameras
    /\ MapInit
    /\ det_df \in SeqsUpTo(AggRows, MaxRows)

AggSpec == AggInit /\ [][MapRun]_vars

----------------------------------------------------------------------------
(* Claims: ingest_detections *)

\* a row ingest_detections rejects, given the registry snapshot it took
BadRow(r, known) ==
    r.camera_id \notin known \/ (r.date_time # "NOW" /\ r.date_time \notin DOMAIN ParseTable)

HasBadRow(rows, known) == \E i \in DOMAIN rows : BadRow(rows[i], known)

\* C1: batch atomicity.  An ingest call whose batch holds a row with an
\* unknown camera_id or an unparseable date_time, at any position, ends in
\* its validation loop by raising ValueError, and no step of an ingest call
\* before its commit changes the stored detections: nothing of the batch is
\* written.
Thm_C1_BatchAtomicity ==
    [][\A p \in Procs :
          /\ (pc[p] = "ingest_loop" /\ pc'[p] # pc[p]
                 /\ HasBadRow(req[p].rows, camera_cache[p]))
               => (pc'[p] = "idle" /\ response'[p].kind = "ValueError")
          /\ (pc'[p] # pc[p] /\ req'[p].op = "ingest" /\ pc[p] # "ingest_commit")
               => detections' = detections]_vars

\* an ingest call has raised on the second row of its batch while the store
\* held a detection, which is still there
Wit_C1_BadRowLast ==
    \E p \in Procs :
        /\ pc[p] = "idle" /\ req[p].op = "ingest"
        /\ response[p] = ValueError("Bad date_time", "garbage")
        /\ req[p].rows = << RowA, RowBadDate >>
        /\ DOMAIN detections = {"1_20240926T064256_a.jpg"}

\* (camera_id, timestamp to the second, file_name) of a stored detection
Identity(d) ==
    << d.camera_id,
       << d.date_time.y, d.date_time.mo, d.date_time.d,
          d.date_time.h, d.date_time.mi, d.date_time.s >>,
       d.file_name >>

\* C2: idempotent re-ingestion.  A commit leaves, for every identity in its
\* batch, exactly one stored record, equal field for field to the last
\* payload the batch holds for that identity (nothing of an earlier record
\* or payload survives); the store grows only by the identities that were
\* not stored before, and every other record is untouched.
Thm_C2_IdempotentReingest ==
    [][\A p \in Procs :
          (pc[p] = "ingest_commit" /\ pc'[p] = "idle") =>
              LET w == batch[p]
                  ids == {w[i].id : i \in DOMAIN w}
              IN  /\ DOMAIN detections' = DOMAIN detections \cup ids
                  /\ \A i \in DOMAIN w :
                        (\A j \in DOMAIN w : j > i => Identity(w[j].data) # Identity(w[i].data))
                            => detections'[w[i].id] = w[i].data
                  /\ \A id \in DOMAIN detections \ ids : detections'[id] = detections[id]
                  /\ \A a, b \in DOMAIN detections' :
                        Identity(detections'[a]) = Identity(detections'[b]) => a = b]_vars

\* RowA, then RowB with the same identity, were ingested by two successive
\* calls: one record, RowB's fields, and RowA's direction is gone
Wit_C2_SecondPayloadStored ==
    \E p, q \in Procs :
        /\ p # q /\ pc[p] = "idle" /\ pc[q] = "idle"
        /\ req[p] = [op |-> "ingest", rows |-> << RowA >>] /\ response[p] = Returned
        /\ req[q] = [op |-> "ingest", rows |-> << RowB >>] /\ response[q] = Returned
        /\ DOMAIN detections = {"1_20240926T064256_a.jpg"}
        /\ detections["1_20240926T064256_a.jpg"].buck_count = 0
        /\ "direction" \notin DOMAIN detections["1_20240926T064256_a.jpg"]

\* C3: when several distinct camera_ids of a batch are absent from the
\* registry snapshot, the error raised names every one of them.
CE_C3_ErrorNamesEveryUnknownCamera ==
    [][\A p \in Procs :
          (pc[p] = "ingest_loop" /\ pc'[p] = "idle"
              /\ response'[p].text = "Unknown camera_id")
            => {response'[p].arg} =
                 {req[p].rows[i].camera_id : i \in DOMAIN req[p].rows} \ camera_cache[p]]_vars

\* C5: every stored detection has buck_count, deer_count and doe_count >= 0.
CE_C5_StoredCountsNonNegative ==
    \A id \in DOMAIN detections :
        /\ detections[id].buck_count >= 0
        /\ detections[id].deer_count >= 0
        /\ detections[id].doe_count >= 0

----------------------------------------------------------------------------
(* Claims: the camera registry *)

\* C4: registry uniqueness under sequential calls.  create_camera for an id
\* that is in the registry when the call checks it raises ValueError and
\* leaves the registry, that camera's fields included, exactly as it was;
\* list_cameras never returns two cameras with the same camera_id.
Thm_C4_CreateExistingRaises ==
    [][/\ \A p \in Procs :
            (pc[p] = "create_get" /\ pc'[p] # pc[p] /\ req[p].camera_id \in DOMAIN cameras)
              => /\ pc'[p] = "idle"
                 /\ response'[p] = ValueError("Camera already exists", req[p].camera_id)
                 /\ cameras' = cameras
       /\ \A c1, c2 \in list_cameras' : c1.camera_id = c2.camera_id => c1 = c2]_vars

\* a create of an existing camera, with other field values, has raised and
\* the camera still has its own
Wit_C4_DuplicateRejected ==
    \E p \in Procs :
        /\ pc[p] = "idle" /\ req[p].op = "create"
        /\ response[p].kind = "ValueError"
        /\ req[p].camera_id \in DOMAIN cameras
        /\ cameras[req[p].camera_id].nickname # req[p].fields.nickname
        /\ cameras[req[p].camera_id].created_at = SeedTime

\* C9: update_camera on an absent camera fails and leaves the registry
\* unchanged; on an existing camera it changes only the supplied fields among
\* nickname, lat, lon, plus updated_at; no update changes created_at or adds
\* or changes any other field.
CE_C9_UpdateTouchesOnlyMutableFields ==
    [][\A p \in Procs :
          (pc[p] \in {"update_get", "update_update"} /\ pc'[p] # pc[p]) =>
              /\ DOMAIN cameras' = DOMAIN cameras
              /\ \A id \in DOMAIN cameras :
                    /\ DOMAIN cameras'[id] = DOMAIN cameras[id]
                    /\ \A f \in DOMAIN cameras[id] :
                          cameras'[id][f] # cameras[id][f]
                            => /\ id = req[p].camera_id
                               /\ \/ f = "updated_at"
                                  \/ f \in MutableFields \cap DOMAIN req[p].fields]_vars

\* C10: create_camera is atomic: a create that returns normally has not
\* replaced a camera some other create stored in the meantime.
CE_C10_CreateNeverOverwrites ==
    [][\A p \in Procs :
          (pc[p] = "create_set" /\ pc'[p] = "idle")
            => req[p].camera_id \notin DOMAIN cameras]_vars

----------------------------------------------------------------------------
(* Claims: the HTTP endpoint *)

\* C8: a POST whose Authorization header is absent or is not exactly
\* "Bearer <token>" is answered 401 by its first step: its body is never
\* parsed into rows, it reads no registry snapshot, queues and commits no
\* write, and its steps change neither collection.
Thm_C8_UnauthorizedTouchesNothing ==
    [][\A p \in Procs :
          (req'[p].op = "post" /\ req'[p].authorization # << "Bearer replace-me-or-use-env" >>)
            => /\ pc'[p] \in {"post_auth", "idle"}
               /\ "rows" \notin DOMAIN req'[p]
               /\ camera_cache'[p] = {} /\ batch'[p] = << >>
               /\ pc'[p] = "idle" => (response'[p].kind = "http" /\ response'[p].status = 401)
               /\ pc'[p] # pc[p] => (detections' = detections /\ cameras' = cameras)]_vars

\* a POST with a wrong token and a valid body naming a registered camera was
\* answered 401, and the store holds no detection
Wit_C8_ValidBodyBadToken ==
    \E p \in Procs :
        /\ pc[p] = "idle" /\ req[p].op = "post"
        /\ req[p].authorization = << "Bearer wrong" >>
        /\ req[p].body = [utf8 |-> TRUE, rows |-> << CsvA >>]
        /\ "1" \in DOMAIN cameras
        /\ response[p].kind = "http" /\ response[p].status = 401
        /\ detections = EmptyDoc

----------------------------------------------------------------------------
(* Claims: the Map page *)

\* the rows of det_df, by position, that the filter retains for one camera
Retained(cam) ==
    {i \in DOMAIN det_df :
        /\ det_df[i].camera_id = cam
        /\ cam \in flt.cameras
        /\ TupleLeq(flt.date_range[1], << det_df[i].date_time.y, det_df[i].date_time.mo, det_df[i].date_time.d >>)
        /\ TupleLeq(<< det_df[i].date_time.y, det_df[i].date_time.mo, det_df[i].date_time.d >>, flt.date_range[2])
        /\ flt.hour_range[1] <= det_df[i].date_time.h
        /\ det_df[i].date_time.h <= flt.hour_range[2]}

\* the 8-point compass, in degrees, of a direction in any letter case
CompassDegrees ==
    { << "N", 0 >>, << "NE", 45 >>, << "E", 90 >>, << "SE", 135 >>,
      << "S", 180 >>, << "SW", 225 >>, << "W", 270 >>, << "NW", 315 >>,
      << "e", 90 >>, << "sw", 225 >> }

Recognized(i) ==
    "direction" \in DOMAIN det_df[i] /\ \E c \in CompassDegrees : c[1] = det_df[i].direction

DegreeAt(i) == (CHOOSE c \in CompassDegrees : c[1] = det_df[i].direction)[2]

\* the retained rows of one camera that carry a recognized direction
Directed(cam) == {i \in Retained(cam) : Recognized(i)}

Frequency(cam, deg) == Cardinality({i \in Directed(cam) : DegreeAt(i) = deg})

\* the most frequent degree values of one camera
Tied(cam) ==
    {DegreeAt(i) : i \in {k \in Directed(cam) :
        \A j \in Directed(cam) : Frequency(cam, DegreeAt(j)) <= Frequency(cam, DegreeAt(k))}}

RECURSIVE SumOver(_, _)
SumOver(I, col) ==
    IF I = {} THEN 0
    ELSE LET i == CHOOSE x \in I : TRUE IN det_df[i][col] + SumOver(I \ {i}, col)

\* C7: the rollup has an entry for exactly the cameras with at least one
\* row whose camera_id is selected, whose date is within the date range and
\* whose hour is within the hour range, both ranges inclusive; the entry's
\* total is the number of such rows, its buck and doe sums are the sums of
\* buck_count and doe_count over them, and last_seen is their latest
\* date_time.  No detections at all gives an empty rollup.
Thm_C7_RollupMatchesFilter ==
    page = "rendered" =>
        /\ DOMAIN agg_df = {cam \in {"1", "2"} : Retained(cam) # {}}
        /\ \A cam \in DOMAIN agg_df :
              /\ agg_df[cam].total = Cardinality(Retained(cam))
              /\ agg_df[cam].buck_cnt = SumOver(Retained(cam), "buck_count")
              /\ agg_df[cam].doe_cnt = SumOver(Retained(cam), "doe_count")
              /\ \E i \in Retained(cam) : det_df[i].date_time = agg_df[cam].last_seen
              /\ \A i \in Retained(cam) : TsLeq(det_df[i].date_time, agg_df[cam].last_seen)
        /\ det_df = << >> => agg_df = EmptyDoc

\* camera "1" is rolled up over two of its three rows, the third being outside
\* the hour range, and camera "2", not selected, has no entry
Wit_C7_FilteredRollup ==
    /\ page = "rendered"
    /\ Len(det_df) = 3
    /\ DOMAIN agg_df = {"1"}
    /\ agg_df["1"].total = 2
    /\ agg_df["1"].buck_cnt = 3
    /\ agg_df["1"].last_seen = T_27_09
    /\ \E i \in DOMAIN det_df : det_df[i].camera_id = "1" /\ det_df[i].date_time.h = 18
    /\ flt.hour_range = << 6, 9 >>

----------------------------------------------------------------------------
(* Claims: ingest_detections beside the camera registry *)

\* C11: one registry snapshot per ingest call.  The only step of an ingest
\* call that reads the registry is its first, which stores the camera ids
\* registered at that moment; no later step of the call changes that set
\* (leaving the call discards it).  The validation loop checks every row
\* against that set and not against the registry: a batch with a row whose
\* camera_id is not in the set fails with ValueError and writes nothing, even
\* when another caller has registered the camera since, and a batch goes on
\* to commit only if the set holds the camera_id of every row.
Thm_C11_OneSnapshotPerCall ==
    [][\A p \in Procs :
          /\ (pc[p] = "ingest_list" /\ pc'[p] # pc[p])
                => (pc'[p] = "ingest_loop" /\ camera_cache'[p] = DOMAIN cameras)
          /\ (pc[p] \in {"ingest_loop", "ingest_commit"})
                => camera_cache'[p] \in {camera_cache[p], {}}
          /\ (pc[p] = "ingest_loop" /\ pc'[p] # pc[p]) =>
                LET unknown == {i \in DOMAIN req[p].rows :
                                   req[p].rows[i].camera_id \notin camera_cache[p]}
                IN  /\ unknown # {} =>
                          /\ pc'[p] = "idle"
                          /\ response'[p].kind = "ValueError"
                          /\ detections' = detections
                    /\ (pc'[p] = "idle" /\ response'[p].text = "Unknown camera_id")
                          => \E i \in unknown : response'[p].arg = req[p].rows[i].camera_id
                    /\ pc'[p] = "ingest_commit" => unknown = {}]_vars

\* an ingest call of a row for camera "2" holds a snapshot without "2" and
\* has not validated yet, while camera "2", created by the other caller
\* since, is in the registry
Wit_C11_CreatedAfterSnapshot ==
    \E p, q \in Procs :
        /\ p # q
        /\ pc[p] = "ingest_loop" /\ req[p].rows = << RowA, RowC >>
        /\ camera_cache[p] = {"1"}
        /\ pc[q] = "idle" /\ req[q].op = "create" /\ req[q].camera_id = "2"
        /\ response[q] = Returned
        /\ "2" \in DOMAIN cameras

\* C12: whenever an ingest call commits, the camera_id of every detection it
\* commits is in the camera registry at the moment of the commit, whatever
\* delete_camera calls run beside it.
CE_C12_CommittedCamerasRegistered ==
    [][\A p \in Procs :
          (pc[p] = "ingest_commit" /\ pc'[p] = "idle") =>
              \A i \in DOMAIN batch[p] : batch[p][i].data.camera_id \in DOMAIN cameras]_vars

----------------------------------------------------------------------------
(* Document ids: ingest_detections over camera ids and file names that hold
   '_' and a timestamp-shaped part *)

\* camera ids an operator typed into the "Camera ID" text input
KeyCamIds == {"1", "1_20240926T064256"}

KeyFiles == {"a.jpg", "20240926T064256_a.jpg"}

KeyTimes == {"2024-09-26 06:42:56", "2024-09-26 06:42:56.5", "2024-09-27 18:05:00"}

\* the registry after create_camera was called for each of KeyCamIds
KeyCameras ==
    [id \in KeyCamIds |->
        [nickname |-> "north", lat |-> 41, lon |-> -79,
         created_at |-> SeedTime, updated_at |-> SeedTime]]

\* ingest_detections([row]) for one row over these ids, files and times
CallIngestKeyed(p) ==
    \E cam \in KeyCamIds, t \in KeyTimes, f \in KeyFiles :
        /\ pc[p] = "idle"
        /\ Start(p, "ingest_list",
                 [op |-> "ingest", rows |-> << Row(cam, t, f, 1, 1, 0) >>])

KeyInit ==
    /\ cameras = KeyCameras
    /\ detections = EmptyDoc
    /\ clock = 0
    /\ pc = [p \in Procs |-> "idle"]
    /\ req = [p \in Procs |-> [op |-> "none"]]
    /\ camera_cache = [p \in Procs |-> {}]
    /\ batch = [p \in Procs |-> << >>]
    /\ response = [p \in Procs |-> NoResponse]
    /\ calls = 0
    /\ MapInit
    /\ det_df = << >>

KeyNext ==
    \E p \in Procs :
        \/ CallIngestKeyed(p) \/ IngestList(p) \/ IngestLoop(p) \/ IngestCommit(p)

KeySpec == KeyInit /\ [][KeyNext]_vars

\* C13: the document id is collision-proof.  A commit never replaces a
\* stored record by a row that differs from it in camera_id, in the
\* timestamp truncated to the second or in file_name: every stored record
\* whose identity differs from that of every committed row is still there,
\* unchanged, after the commit.
CE_C13_DocIdCollisionProof ==
    [][\A p \in Procs :
          (pc[p] = "ingest_commit" /\ pc'[p] = "idle") =>
              \A id \in DOMAIN detections :
                  (\A i \in DOMAIN batch[p] :
                        Identity(batch[p][i].data) # Identity(detections[id]))
                    => (id \in DOMAIN detections' /\ detections'[id] = detections[id])]_vars

----------------------------------------------------------------------------
(* Claims: the endpoint beside the library call *)

\* a CSV row as the mapping a direct caller holds: every column, counts as ints
Typed(r) == [f \in DOMAIN r |-> IF f \in CountFields THEN IntTable[r[f]] ELSE r[f]]

\* C14: a row posted with the optional direction column is stored with its
\* direction.  When a POST commits, the record stored for each row of its
\* body has the fields the same row mapping gets when it is handed to
\* ingest_detections directly, direction included, and the same values in
\* all of them but ingested_at.
CE_C14_EndpointKeepsDirection ==
    [][\A p \in Procs :
          (pc[p] = "ingest_commit" /\ pc'[p] = "idle" /\ req[p].op = "post") =>
              \A i \in DOMAIN req[p].body.rows :
                  LET r      == req[p].body.rows[i]
                      direct == Payload(Typed(r), ParseTable[r.date_time], Utcnow)
                      stored == detections'[batch[p][i].id]
                  IN  /\ DOMAIN stored = DOMAIN direct
                      /\ \A f \in (DOMAIN stored \cap DOMAIN direct) \ {"ingested_at"} :
                            stored[f] = direct[f]]_vars

----------------------------------------------------------------------------
(* Maintenance page: re-assign camera_id *)

\* the registry after create_camera was called for both camera ids
BothCameras == [id \in CamIds |-> SeedCameras["1"]]

\* ingested_at of the detections earlier ingest calls left in the store
EarlierTime == Ts(2024, 10, 1, 8, 0, 0, 0)

\* the record an earlier ingest_detections stored for row r
StoredDoc(r) == Payload(r, ParseTable[r.date_time], EarlierTime)

\* camera "2"'s own a.jpg, taken in the same second as camera "1"'s
RowA2 == Row("2", "2024-09-26 06:42:56", "a.jpg", 0, 1, 1)

RowB1 == Row("1", "2024-09-27 18:05:00", "b.jpg", 0, 1, 1)

StoredDocs == { StoredDoc(RowA), StoredDoc(RowA2), StoredDoc(RowB1) }

DocIdOf(d) == DocId(d.camera_id, d.date_time, d.file_name)

\* the collection that holds the records D
StoreOf(D) == [id \in {DocIdOf(d) : d \in D} |-> CHOOSE d \in D : DocIdOf(d) = id]

\* collection.stream() yields documents in document-id order; the ids of
\* cameras "1", "2" over the two (time, file) pairs, ascending
StreamOrder ==
    << "1_20240926T064256_a.jpg", "1_20240927T180500_b.jpg",
       "2_20240926T064256_a.jpg", "2_20240927T180500_b.jpg" >>

\* a cell of a DataFrame column that the document has no field for
NaN == "NaN"

\* get_detections_df(): pd.DataFrame(docs): one row per document, in stream
\* order, over the union of all documents' fields
get_detections_df ==
    LET ids  == SelectSeq(StreamOrder, LAMBDA id : id \in DOMAIN detections)
        cols == UNION {DOMAIN detections[id] : id \in DOMAIN detections}
    IN  [i \in DOMAIN ids |->
            [c \in cols |-> IF c \in DOMAIN detections[ids[i]]
                            THEN detections[ids[i]][c] ELSE NaN]]

\* a re-assignment that leaves camera_id as it was
RelabelNot(rows, new_cam) == rows

\* rows["camera_id"] = new_cam
Relabel(rows, new_cam) == [i \in DOMAIN rows |-> Merge(rows[i], [camera_id |-> new_cam])]

\* the operator opens the page
CallReassign(p) ==
    /\ pc[p] = "idle"
    /\ Start(p, "maint_load", [op |-> "reassign"])

\* df = get_detections_df(); st.stop() when it is empty; the multiselect over
\* df's file names; nothing more happens when nothing is selected
MaintLoad(p) ==
    /\ pc[p] = "maint_load"
    /\ LET df == get_detections_df IN
         \E to_fix \in SUBSET {df[i].file_name : i \in DOMAIN df} :
            IF to_fix = {}
            THEN /\ Finish(p, Returned)
                 /\ req' = req
            ELSE /\ req' = [req EXCEPT ![p] = [op |-> "reassign", df |-> df, to_fix |-> to_fix]]
                 /\ pc' = [pc EXCEPT ![p] = "maint_cameras"]
                 /\ UNCHANGED << response, camera_cache, batch >>
    /\ UNCHANGED << cameras, detections, clock, calls, mapVars >>

\* cameras = [c["camera_id"] for c in list_cameras()]; the selectbox; "Update
\* rows" pressed: mask, rows, the new camera_id, and ingest_detections is entered
MaintCameras(p) ==
    /\ pc[p] = "maint_cameras"
    /\ LET ids  == {c.camera_id : c \in list_cameras}
           mask == SelectSeq(req[p].df, LAMBDA r : r.file_name \in req[p].to_fix)
       IN  \E new_cam \in (IF ids = {} THEN {"None"} ELSE ids) :
              req' = [req EXCEPT ![p] =
                         Merge(req[p], [new_cam |-> new_cam, selected |-> mask,
                                        rows |-> Relabel(mask, new_cam)])]
    /\ pc' = [pc EXCEPT ![p] = "ingest_list"]
    /\ UNCHANGED << cameras, detections, clock, camera_cache, batch, response, calls, mapVars >>

MaintInit ==
    /\ cameras = BothCameras
    /\ detections \in {StoreOf(D) : D \in SUBSET StoredDocs}
    /\ clock = 0
    /\ pc = [p \in Procs |-> "idle"]
    /\ req = [p \in Procs |-> [op |-> "none"]]
    /\ camera_cache = [p \in Procs |-> {}]
    /\ batch = [p \in Procs |-> << >>]
    /\ response = [p \in Procs |-> NoResponse]
    /\ calls = 0
    /\ MapInit
    /\ det_df = << >>

MaintNext ==
    \E p \in Procs :
        \/ CallReassign(p) \/ MaintLoad(p) \/ MaintCameras(p)
        \/ IngestList(p) \/ IngestLoop(p) \/ IngestCommit(p)

MaintSpec == MaintInit /\ [][MaintNext]_vars

----------------------------------------------------------------------------
(* Claims: the Maintenance page *)

\* the selected rows that carry another camera_id than the new one
Moved(p) == {i \in DOMAIN req[p].selected : req[p].selected[i].camera_id # req[p].new_cam}

\* C15, as claimed: a re-assignment keeps, for each re-assigned row, the
\* original record under its old camera unchanged and stores a new record
\* keyed and labelled with the new camera; no record is removed and the
\* number of stored records grows by the number of re-assigned rows.
CE_C15_StoreGrowsByReassignedRows ==
    [][\A p \in Procs :
          (pc[p] = "ingest_commit" /\ pc'[p] = "idle" /\ req[p].op = "reassign") =>
              /\ DOMAIN detections \subseteq DOMAIN detections'
              /\ \A i \in Moved(p) :
                    LET r   == req[p].selected[i]
                        old == DocId(r.camera_id, r.date_time, r.file_name)
                        new == DocId(req[p].new_cam, r.date_time, r.file_name)
                    IN  /\ old \in DOMAIN detections => detections'[old] = detections[old]
                        /\ new \in DOMAIN detections'
                        /\ detections'[new].camera_id = req[p].new_cam
              /\ Cardinality(DOMAIN detections')
                    = Cardinality(DOMAIN detections) + Cardinality(Moved(p))]_vars

\* C15, amended: a re-assignment that commits removes no record and leaves
\* every record unchanged whose document id is not the id derived from the
\* new camera, the timestamp and the file name of a selected row.  Under
\* each such derived id it stores a record labelled with the new camera that
\* carries the fields of the last selected row with that id, with
\* ingested_at set by this call, replacing a record already stored under
\* that id.  The store
\* grows by the number of derived ids that were not stored before, which is
\* at most the number of selected rows.
Thm_C15_ReassignAddsOrReplaces ==
    [][\A p \in Procs :
          (pc[p] = "ingest_commit" /\ pc'[p] = "idle" /\ req[p].op = "reassign") =>
              LET sel == req[p].selected
                  B   == req[p].new_cam
                  new == [i \in DOMAIN sel |-> DocId(B, sel[i].date_time, sel[i].file_name)]
                  ids == {new[i] : i \in DOMAIN sel}
              IN  /\ DOMAIN detections' = DOMAIN detections \cup ids
                  /\ \A id \in DOMAIN detections \ ids : detections'[id] = detections[id]
                  /\ \A i \in DOMAIN sel :
                        (\A j \in DOMAIN sel : j > i => new[j] # new[i]) =>
                            /\ DOMAIN detections'[new[i]] = DOMAIN sel[i]
                            /\ detections'[new[i]].camera_id = B
                            /\ \A f \in DOMAIN sel[i] \ {"camera_id", "ingested_at"} :
                                  detections'[new[i]][f] = sel[i][f]
                            /\ \E n \in 0..clock :
                                  detections'[new[i]].ingested_at = ClockTime(n)
                  /\ Cardinality(DOMAIN detections') - Cardinality(DOMAIN detections)
                        = Cardinality(ids \ DOMAIN detections)
                  /\ Cardinality(ids \ DOMAIN detections) <= Len(sel)]_vars

\* a.jpg of camera "1" was re-assigned to camera "2", which had an a.jpg of
\* the same second: camera "1"'s record is as it was, camera "2"'s record
\* was written again, and the store still holds two records
Wit_C15_ReassignOntoExisting ==
    \E p \in Procs :
        /\ pc[p] = "idle" /\ req[p].op = "reassign" /\ response[p] = Returned
        /\ "new_cam" \in DOMAIN req[p] /\ req[p].new_cam = "2"
        /\ Moved(p) # {}
        /\ DOMAIN detections = {"1_20240926T064256_a.jpg", "2_20240926T064256_a.jpg"}
        /\ detections["1_20240926T064256_a.jpg"] = StoredDoc(RowA)
        /\ detections["2_20240926T064256_a.jpg"].camera_id = "2"
        /\ detections["2_20240926T064256_a.jpg"].ingested_at = ClockTime(0)

====
